---- MODULE Spec2Model ----
(***************************************************************************)
(* pxtone-rs: the flex (variable-length) decoder of descriptor.rs, the     *)
(* PTNOISE parser of pulse.rs (Noise::new, NoiseUnit::new,                 *)
(* NoiseOscillator::new) and the PCM builder of pulse/noise_builder.rs     *)
(* (NoiseBuilder::build).                                                  *)
(*                                                                         *)
(* Three specifications share the variables:                               *)
(*   SpecFlex   read_32_flex applied to bounded byte streams               *)
(*   Spec       Noise::new reading its input field by field                *)
(*   SpecBuild  NoiseBuilder::build run on a parsed Noise, with the        *)
(*              envelope and the oscillator phases of every unit           *)
(*                                                                         *)
(* 32-bit words are kept as the four bytes [u8; 4] the decoder fills       *)
(* (buf[1] is the low byte), because an unsigned 32-bit value does not fit *)
(* the model checker's integers.                                           *)
(***************************************************************************)
EXTENDS Integers, Sequences, FiniteSets, TLC

VARIABLES
    pc,         \* position of the running function
    stream,     \* SpecFlex: the bytes in front of the cursor
    word,       \* SpecFlex: the 32-bit word the stream was encoded from, <<>> if none
    flex,       \* SpecFlex: what the accessor returned
    pos,        \* Spec: number of input bytes consumed so far
    last,       \* Spec: the bytes the last read consumed
    field,      \* Spec: the field the last read was for
    onScenario, \* Spec: the bytes consumed so far are a prefix of the boundary document
    result,     \* outcome of the call: "none", "Ok", "Err" or "Panic"
    error,      \* the io error kind of an Err, the failed assertion of a Panic
    smp_num_44k, \* Noise.smp_num_44k
    unit_num,   \* Noise::new: the unit count byte
    units,      \* Noise.units
    unit,       \* NoiseUnit::new: the unit being read
    ch, sps, bps, \* NoiseBuilder::build: the target
    bunits,     \* NoiseBuilder::build: units, the NoiseBuilderUnit of each unit
    smp_num,    \* NoiseBuilder::build: the byte count the loop runs to
    smp_len,    \* NoiseBuilder::build: smp.len()
    frame,      \* NoiseBuilder::build: the bytes the last loop iteration wrote
    mixed,      \* NoiseBuilder::build: the clamped per-channel values of that iteration
    iterations  \* NoiseBuilder::build: loop iterations run so far

flexVars == <<stream, word, flex>>
parseVars == <<pos, last, field, onScenario, unit_num, unit>>
noiseVars == <<smp_num_44k, units>>
buildVars == <<ch, sps, bps, bunits, smp_num, smp_len, frame, mixed, iterations>>
vars == <<pc, flexVars, parseVars, noiseVars, result, error, buildVars>>

(***************************************************************************)
(* u8 arithmetic                                                           *)
(***************************************************************************)
RECURSIVE Pow2(_)
Pow2(n) == IF n = 0 THEN 1 ELSE 2 * Pow2(n - 1)

RECURSIVE BitAnd(_, _)
BitAnd(a, b) ==
    IF a = 0 \/ b = 0 THEN 0
    ELSE (a % 2) * (b % 2) + 2 * BitAnd(a \div 2, b \div 2)

RECURSIVE BitOr(_, _)
BitOr(a, b) ==
    IF a = 0 THEN b
    ELSE IF b = 0 THEN a
    ELSE (IF a % 2 = 1 \/ b % 2 = 1 THEN 1 ELSE 0) + 2 * BitOr(a \div 2, b \div 2)

RECURSIVE BitXor(_, _)
BitXor(a, b) ==
    IF a = 0 THEN b
    ELSE IF b = 0 THEN a
    ELSE ((a + b) % 2) + 2 * BitXor(a \div 2, b \div 2)

\* u8 << n and u8 >> n: bits shifted out of the byte are lost
Shl8(a, n) == (a * Pow2(n)) % 256
Shr8(a, n) == a \div Pow2(n)

(***************************************************************************)
(* descriptor.rs: read_32_flex                                             *)
(***************************************************************************)
\* the read loop: at most five bytes, stopping after the first byte whose
\* bit 7 is clear; read_u8 at the end of the input is an io error
RECURSIVE flex_loop(_, _)
flex_loop(s, len) ==
    IF len = 5 THEN [eof |-> FALSE, len |-> 5]
    ELSE IF Len(s) < len + 1 THEN [eof |-> TRUE, len |-> len]
    ELSE IF BitAnd(s[len + 1], 128) = 0 THEN [eof |-> FALSE, len |-> len + 1]
    ELSE flex_loop(s, len + 1)

\* read_32_flex with a slip in the five-byte arm: the fifth group is shifted
\* by 5, as the fourth is in the arm above it
flex_assemble_shift5(r, len) ==
    CASE len = 1 ->
           << BitAnd(r[1], 127), 0, 0, 0 >>
      [] len = 2 ->
           << BitOr(BitAnd(r[1], 127), Shl8(r[2], 7)),
              Shr8(BitAnd(r[2], 127), 1), 0, 0 >>
      [] len = 3 ->
           << BitOr(BitAnd(r[1], 127), Shl8(r[2], 7)),
              BitOr(Shr8(BitAnd(r[2], 127), 1), Shl8(r[3], 6)),
              Shr8(BitAnd(r[3], 127), 2), 0 >>
      [] len = 4 ->
           << BitOr(BitAnd(r[1], 127), Shl8(r[2], 7)),
              BitOr(Shr8(BitAnd(r[2], 127), 1), Shl8(r[3], 6)),
              BitOr(Shr8(BitAnd(r[3], 127), 2), Shl8(r[4], 5)),
              Shr8(BitAnd(r[4], 127), 3) >>
      [] len = 5 ->
           << BitOr(BitAnd(r[1], 127), Shl8(r[2], 7)),
              BitOr(Shr8(BitAnd(r[2], 127), 1), Shl8(r[3], 6)),
              BitOr(Shr8(BitAnd(r[3], 127), 2), Shl8(r[4], 5)),
              BitOr(Shr8(BitAnd(r[4], 127), 3), Shl8(r[5], 5)) >>

\* the match on len (r is 1-based here: r[1] is the code's r[0])
flex_assemble(r, len) ==
    CASE len = 1 ->
           << BitAnd(r[1], 127), 0, 0, 0 >>
      [] len = 2 ->
           << BitOr(BitAnd(r[1], 127), Shl8(r[2], 7)),
              Shr8(BitAnd(r[2], 127), 1), 0, 0 >>
      [] len = 3 ->
           << BitOr(BitAnd(r[1], 127), Shl8(r[2], 7)),
              BitOr(Shr8(BitAnd(r[2], 127), 1), Shl8(r[3], 6)),
              Shr8(BitAnd(r[3], 127), 2), 0 >>
      [] len = 4 ->
           << BitOr(BitAnd(r[1], 127), Shl8(r[2], 7)),
              BitOr(Shr8(BitAnd(r[2], 127), 1), Shl8(r[3], 6)),
              BitOr(Shr8(BitAnd(r[3], 127), 2), Shl8(r[4], 5)),
              Shr8(BitAnd(r[4], 127), 3) >>
      [] len = 5 ->
           << BitOr(BitAnd(r[1], 127), Shl8(r[2], 7)),
              BitOr(Shr8(BitAnd(r[2], 127), 1), Shl8(r[3], 6)),
              BitOr(Shr8(BitAnd(r[3], 127), 2), Shl8(r[4], 5)),
              BitOr(Shr8(BitAnd(r[4], 127), 3), Shl8(r[5], 4)) >>

\* read_32_flex with the io error of read_u8 dropped: a field the input
\* ends in reads as 0 (read_u8().unwrap_or_default() in place of read_u8()?)
read_32_flex_eof_zero(s) ==
    LET l == flex_loop(s, 0)
        r == [i \in 1..5 |-> IF i <= l.len THEN s[i] ELSE 0]
    IN  IF l.eof
        THEN [ok |-> TRUE, err |-> "none", len |-> l.len, buf |-> <<0, 0, 0, 0>>]
        ELSE [ok |-> TRUE, err |-> "none", len |-> l.len, buf |-> flex_assemble(r, l.len)]

\* read_32_flex on the bytes s in front of the cursor: Err(UnexpectedEof)
\* when the input ends inside the field, else Ok(buf) with len bytes consumed
read_32_flex(s) ==
    LET l == flex_loop(s, 0)
        r == [i \in 1..5 |-> IF i <= l.len THEN s[i] ELSE 0]
    IN  IF l.eof
        THEN [ok |-> FALSE, err |-> "UnexpectedEof", len |-> l.len, buf |-> <<0, 0, 0, 0>>]
        ELSE [ok |-> TRUE, err |-> "none", len |-> l.len, buf |-> flex_assemble(r, l.len)]

\* mem::transmute::<[u8; 4], u32>: the word as two 16-bit halves
transmute_u32(buf) == [hi |-> buf[4] * 256 + buf[3], lo |-> buf[2] * 256 + buf[1]]

\* mem::transmute::<[u8; 4], i32>: two's complement
transmute_i32(buf) ==
    (IF buf[4] >= 128 THEN (buf[4] - 256) ELSE buf[4]) * 16777216
        + buf[3] * 65536 + buf[2] * 256 + buf[1]

\* mem::transmute::<[u8; 4], f32>: the IEEE-754 single precision fields
transmute_f32(buf) ==
    [sign |-> buf[4] \div 128,
     exp  |-> (buf[4] % 128) * 2 + buf[3] \div 128,
     man  |-> (buf[3] % 128) * 65536 + buf[2] * 256 + buf[1]]

read_u32_flex(s) ==
    LET f == read_32_flex(s)
    IN  [ok |-> f.ok, err |-> f.err, len |-> f.len, val |-> transmute_u32(f.buf)]

read_i32_flex(s) ==
    LET f == read_32_flex(s)
    IN  [ok |-> f.ok, err |-> f.err, len |-> f.len, val |-> transmute_i32(f.buf)]

read_f32_flex(s) ==
    LET f == read_32_flex(s)
    IN  [ok |-> f.ok, err |-> f.err, len |-> f.len, val |-> transmute_f32(f.buf)]

(***************************************************************************)
(* The variables a specification does not use stay at these values.       *)
(***************************************************************************)
FlexIdle == stream = <<>> /\ word = <<>> /\ flex = [kind |-> "none"]

ParseIdle ==
    /\ pos = 0 /\ last = <<>> /\ field = "none" /\ onScenario = FALSE
    /\ unit_num = 0 /\ unit = [flags |-> 0]

BuildIdle ==
    /\ ch = 0 /\ sps = 0 /\ bps = 0 /\ bunits = <<>>
    /\ smp_num = 0 /\ smp_len = 0 /\ frame = <<>> /\ mixed = <<>> /\ iterations = 0

(***************************************************************************)
(* SpecFlex: the three accessors applied to bounded byte streams          *)
(***************************************************************************)
MaxStream == 6

\* stream bytes: with and without the continuation flag, low bit set and clear
FlexBytes == {0, 42, 127, 128, 213}

\* bytes of the 32-bit words that are encoded and decoded again
WordBytes == {0, 1, 127, 128, 255}

RECURSIVE SeqsUpTo(_, _)
SeqsUpTo(S, n) ==
    IF n = 0 THEN {<<>>}
    ELSE LET shorter == SeqsUpTo(S, n - 1)
         IN  shorter \cup {Append(q, b) : q \in {x \in shorter : Len(x) = n - 1}, b \in S}

\* the base-128 little-endian encoding of the word w (a [u8; 4], low byte
\* first): seven payload bits per byte, bit 7 set on every byte but the last,
\* as few bytes as hold the value
Group(w, i) ==
    CASE i = 0 -> w[1] % 128
      [] i = 1 -> w[1] \div 128 + (w[2] % 64) * 2
      [] i = 2 -> w[2] \div 64 + (w[3] % 32) * 4
      [] i = 3 -> w[3] \div 32 + (w[4] % 16) * 8
      [] i = 4 -> w[4] \div 16

Groups(w) ==
    IF \E i \in 1..4 : Group(w, i) # 0
    THEN 1 + CHOOSE i \in 1..4 : Group(w, i) # 0 /\ \A j \in (i + 1)..4 : Group(w, j) = 0
    ELSE 1

Encode(w) ==
    [i \in 1..Groups(w) |-> Group(w, i - 1) + (IF i < Groups(w) THEN 128 ELSE 0)]

FlexInit ==
    /\ pc = "flex"
    /\ \/ stream \in SeqsUpTo(FlexBytes, MaxStream) /\ word = <<>>
       \/ /\ word \in WordBytes \X WordBytes \X WordBytes \X WordBytes
          /\ stream \in {Encode(word), Encode(word) \o <<255>>}
    /\ flex = [kind |-> "none"]
    /\ ParseIdle /\ BuildIdle
    /\ result = "none" /\ error = "none"
    /\ smp_num_44k = 0 /\ units = <<>>

FlexRest == UNCHANGED <<stream, word, parseVars, noiseVars, result, error, buildVars>>

FlexReadU32 ==
    /\ pc = "flex"
    /\ flex' = [kind |-> "u32"] @@ read_u32_flex(stream)
    /\ pc' = "flex_done"
    /\ FlexRest

FlexReadI32 ==
    /\ pc = "flex"
    /\ flex' = [kind |-> "i32"] @@ read_i32_flex(stream)
    /\ pc' = "flex_done"
    /\ FlexRest

FlexReadF32 ==
    /\ pc = "flex"
    /\ flex' = [kind |-> "f32"] @@ read_f32_flex(stream)
    /\ pc' = "flex_done"
    /\ FlexRest

FlexNext == FlexReadU32 \/ FlexReadI32 \/ FlexReadF32

SpecFlex == FlexInit /\ [][FlexNext]_vars

(***************************************************************************)
(* Properties of the flex decoder                                          *)
(***************************************************************************)
\* the bit pattern of a value an accessor returned, low byte first
BitsOf(kind, val) ==
    CASE kind = "u32" ->
           << val.lo % 256, val.lo \div 256, val.hi % 256, val.hi \div 256 >>
      [] kind = "i32" ->
           LET low == IF val >= 0 THEN val ELSE (val + 2147483647) + 1
           IN  << low % 256, (low \div 256) % 256, (low \div 65536) % 256,
                  low \div 16777216 + (IF val < 0 THEN 128 ELSE 0) >>
      [] kind = "f32" ->
           << val.man % 256, (val.man \div 256) % 256,
              (val.man \div 65536) + (val.exp % 2) * 128,
              val.exp \div 2 + val.sign * 128 >>

\* output bit k of the word assembled from the first n bytes of s: payload
\* bit k % 7 of group k \div 7
PayloadBit(s, n, k) ==
    IF k \div 7 < n THEN (s[k \div 7 + 1] \div Pow2(k % 7)) % 2 ELSE 0

PayloadByte(s, n, b) ==
    PayloadBit(s, n, 8 * b) + 2 * PayloadBit(s, n, 8 * b + 1)
        + 4 * PayloadBit(s, n, 8 * b + 2) + 8 * PayloadBit(s, n, 8 * b + 3)
        + 16 * PayloadBit(s, n, 8 * b + 4) + 32 * PayloadBit(s, n, 8 * b + 5)
        + 64 * PayloadBit(s, n, 8 * b + 6) + 128 * PayloadBit(s, n, 8 * b + 7)

PayloadWord(s, n) ==
    << PayloadByte(s, n, 0), PayloadByte(s, n, 1), PayloadByte(s, n, 2), PayloadByte(s, n, 3) >>

\* the field ends within five bytes: some byte among the first five has bit 7 clear
Terminated(s) == \E i \in 1..5 : i <= Len(s) /\ s[i] < 128

FirstClear(s) == CHOOSE i \in 1..5 : i <= Len(s) /\ s[i] < 128 /\ \A j \in 1..(i - 1) : s[j] >= 128

\* C5: on a field that ends within five bytes, each accessor consumes the
\* bytes up to and including the first one whose bit 7 is clear (1 to 5, none
\* after it) and returns the word whose bits [7i, 7i+6] are group i's payload,
\* with the bits beyond 32 dropped; the three accessors return that same bit
\* pattern; decoding the encoding of a word gives the word back.
C5_FlexDecodes ==
    (pc = "flex_done" /\ Terminated(stream)) =>
        /\ flex.ok
        /\ flex.len \in 1..5
        /\ flex.len = FirstClear(stream)
        /\ BitsOf(flex.kind, flex.val) = PayloadWord(stream, flex.len)
        /\ word # <<>> => /\ BitsOf(flex.kind, flex.val) = word
                          /\ flex.len = Len(Encode(word))

\* a five-byte encoding of a word with the top bit set, read as a signed
\* value, with one more byte behind it that stays unread
C5_Witness ==
    /\ pc = "flex_done" /\ flex.ok /\ flex.kind = "i32"
    /\ word # <<>> /\ word[4] = 255 /\ flex.val < 0
    /\ flex.len = 5 /\ Len(stream) = 6

\* the first five bytes all carry the continuation flag
Overlong(s) == Len(s) >= 5 /\ \A i \in 1..5 : s[i] >= 128

\* C6: when the fifth byte still has bit 7 set the decoder fails with
\* InvalidVariableLength and returns no value.
C6_OverlongFails ==
    (pc = "flex_done" /\ Overlong(stream)) =>
        ~flex.ok /\ flex.err = "InvalidVariableLength"

(***************************************************************************)
(* pulse.rs: Noise::new, NoiseUnit::new, NoiseOscillator::new              *)
(*                                                                         *)
(* pulse.rs names the flex reads read_var_u32, read_var_i32 and            *)
(* read_var_f32; they are the accessors read_u32_flex, read_i32_flex and   *)
(* read_f32_flex of descriptor.rs.  A failed read leaves through `?` as    *)
(* Err(UnexpectedEof); a failed assert! or unwrap() is a panic, which is   *)
(* no return value of the call.                                            *)
(***************************************************************************)
CODE == <<80, 84, 78, 79, 73, 83, 69, 45>>   \* b"PTNOISE-"
VERSION == 20120418
MAX_UNIT_NUM == 4
LIMIT_SMP_NUM == 480000                      \* 48000 * 10

FLAG_ENVELOPE == 4
FLAG_PAN == 8
FLAG_OSC_MAIN == 16
FLAG_OSC_FREQ == 32
FLAG_OSC_VOLU == 64
FLAG_UNCOVERED == [hi |-> 65535, lo |-> 65411]   \* 0xffff_ff83

MAX_ENVELOPE_NUM == 3
LIMIT_ENVE_X == 10000                        \* 1000 * 10
LIMIT_ENVE_Y == 100

\* the limits of NoiseOscillator, in tenths (44100.0, 200.0, 100.0)
LIMIT_FREQ == 441000
LIMIT_VOLU == 2000
LIMIT_OFFSET == 1000

\* number of variants of enum NoiseWave
NOISE_WAVE_NUM == 17

Max(a, b) == IF a >= b THEN a ELSE b
Min(a, b) == IF a <= b THEN a ELSE b

\* u32 <= n, for a bound n below 2^31
U32Le(u, n) == u.hi < 32768 /\ u.hi * 65536 + u.lo <= n

\* u32.min(n) for n below 2^31
U32Min(u, n) == IF U32Le(u, n) THEN u.hi * 65536 + u.lo ELSE n

\* u32 & mask
U32And(u, mask) == [hi |-> BitAnd(u.hi, mask.hi), lo |-> BitAnd(u.lo, mask.lo)]

\* byteorder read_u32::<LittleEndian> of four bytes
read_u32_le(s) == [hi |-> s[4] * 256 + s[3], lo |-> s[2] * 256 + s[1]]

\* byteorder read_i8 of one byte
read_i8(b) == IF b >= 128 THEN b - 256 ELSE b

\* (f / 10.0).max(0.0).min(limit) for a decoded f32, kept in tenths with the
\* fraction of a tenth dropped: f32::max(NaN, 0.0) is 0.0, a negative value
\* or -0.0 gives 0, +inf and every value of 2^19 or more gives the limit
clamp_f32_div10(f, limit) ==
    IF f.exp = 255 /\ f.man # 0 THEN 0
    ELSE IF f.sign = 1 THEN 0
    ELSE IF f.exp >= 146 THEN limit
    ELSE IF f.exp < 127 THEN 0
    ELSE Min((8388608 + f.man) \div Pow2(150 - f.exp), limit)

\* Option::None and the unit NoiseUnit::new fills
None == [some |-> FALSE]
EmptyUnit == [flags |-> 0]

\* the next section of a unit after section k whose flag is set, in the
\* order NoiseUnit::new reads them; a section whose flag is clear is not read
NextSection(flags, k) ==
    IF k < 1 /\ BitAnd(flags, FLAG_ENVELOPE) # 0 THEN "envelope"
    ELSE IF k < 2 /\ BitAnd(flags, FLAG_PAN) # 0 THEN "pan"
    ELSE IF k < 3 /\ BitAnd(flags, FLAG_OSC_MAIN) # 0 THEN "main"
    ELSE IF k < 4 /\ BitAnd(flags, FLAG_OSC_FREQ) # 0 THEN "freq"
    ELSE IF k < 5 /\ BitAnd(flags, FLAG_OSC_VOLU) # 0 THEN "volu"
    ELSE "unit_end"

\* k flex fields read one after the other from the bytes s, up to and
\* including the first that fails
RECURSIVE flex_fields(_, _)
flex_fields(s, k) ==
    IF k = 0 THEN <<>>
    ELSE LET f == read_32_flex(s)
         IN  IF ~f.ok THEN <<f>>
             ELSE <<f>> \o flex_fields(SubSeq(s, f.len + 1, Len(s)), k - 1)

RECURSIVE SumLen(_, _)
SumLen(fs, n) == IF n = 0 THEN 0 ELSE fs[n].len + SumLen(fs, n - 1)

\* NoiseOscillator::new on the bytes s: wave (flex i32, unwrapped into a
\* NoiseWave before the next read), rev (flex u32), freq, volu, offset (flex f32)
NoiseOscillator_new(s) ==
    LET fs == flex_fields(s, 5)
        n  == Len(fs)
    IN  IF ~fs[1].ok THEN [out |-> "Err", err |-> fs[1].err, len |-> fs[1].len]
        ELSE IF transmute_i32(fs[1].buf) \notin 0..(NOISE_WAVE_NUM - 1)
        THEN [out |-> "Panic", err |-> "NoiseWave::from_i32(..).unwrap()", len |-> fs[1].len]
        ELSE IF ~fs[n].ok THEN [out |-> "Err", err |-> fs[n].err, len |-> SumLen(fs, n)]
        ELSE [out |-> "Ok", err |-> "none", len |-> SumLen(fs, 5),
              osc |-> [some |-> TRUE,
                       wave |-> transmute_i32(fs[1].buf),
                       rev |-> transmute_u32(fs[2].buf) # [hi |-> 0, lo |-> 0],
                       freq |-> clamp_f32_div10(transmute_f32(fs[3].buf), LIMIT_FREQ),
                       volu |-> clamp_f32_div10(transmute_f32(fs[4].buf), LIMIT_VOLU),
                       offset |-> clamp_f32_div10(transmute_f32(fs[5].buf), LIMIT_OFFSET)]]

(***************************************************************************)
(* Spec: Noise::new reading an input buffer field by field.  Each read     *)
(* draws the bytes in front of the cursor from a small set; a sequence     *)
(* shorter than the field is an input that ends there.  The buffers        *)
(* explored are those with at most one unit, of any length, and those with *)
(* more units and at most MaxInput bytes.                                  *)
(***************************************************************************)
MaxInput == 22

\* "PTNOISE-" + u32(20120418) + flex(44100) + u8(0)
Scenario == CODE \o <<98, 3, 51, 1>> \o <<196, 216, 2>> \o <<0>>

SignatureInputs ==
    { CODE,
      <<80, 84, 86, 79, 73, 67, 69, 45>>,      \* "PTVOICE-"
      <<80, 84, 78, 79>> }                     \* input ends inside the signature

VersionInputs ==
    { <<98, 3, 51, 1>>,                        \* 20120418
      <<99, 3, 51, 1>>,                        \* 20120419
      <<207, 23, 50, 1>>,                      \* 20060111
      <<255, 255, 255, 255>>,
      <<98, 3>> }                              \* input ends inside the version

SmpNumInputs ==
    { <<0>>, <<3>>,
      <<196, 216, 2>>,                         \* 44100
      <<129, 166, 29>>,                        \* 480001
      <<255, 255, 255, 255, 15>>,              \* 0xffffffff
      <<>>, <<196>> }                          \* input ends inside the field

UnitNumInputs == { <<0>>, <<1>>, <<2>>, <<4>>, <<5>>, <<255>>, <<>> }

FlagsInputs ==
    { <<0>>, <<4>>, <<8>>, <<16>>, <<32>>, <<64>>, <<12>>, <<124>>,
      <<1>>, <<2>>, <<128, 1>>, <<132, 128, 4>>,
      <<252, 255, 255, 255, 15>>,              \* 0xfffffffc
      <<>>, <<128>> }

EnveNumInputs ==
    { <<0>>, <<1>>, <<2>>, <<3>>, <<4>>, <<255, 255, 255, 255, 15>>, <<>> }

\* an envelope point: flex x, flex y
EnvePointInputs ==
    { <<244, 3, 50>>,                          \* (500, 50)
      <<145, 78, 101>>,                        \* (10001, 101)
      <<255, 255, 255, 255, 15, 255, 255, 255, 255, 15>>,   \* (-1, -1)
      <<244, 3>>,                              \* input ends before y
      <<>> }

PanInputs == { <<0>>, <<128>>, <<206>>, <<127>>, <<>> }

\* an oscillator: flex wave, rev, freq, volu, offset
OscillatorInputs ==
    { <<1, 0, 128, 128, 232, 163, 4, 128, 128, 232, 163, 4, 0>>,
            \* sine, 1000.0 (100 Hz), 1000.0 (100 %), 0.0
      <<16, 2, 168, 214, 185, 243, 4, 128, 128, 128, 137, 12, 128, 128, 128, 254, 7>>,
            \* saw8, reversed, 1e9, -10.0, NaN
      <<17>>,                                  \* no such waveform
      <<255, 255, 255, 255, 15>>,              \* waveform -1
      <<1, 0, 128, 128>>,                      \* input ends inside the frequency
      <<>> }

Fits(s) == unit_num <= 1 \/ pos + Len(s) <= MaxInput

\* the cursor moves over the bytes s, read for the field pc names
Consume(s) ==
    /\ pos' = pos + Len(s)
    /\ last' = s
    /\ field' = pc
    /\ onScenario' = /\ onScenario
                     /\ pos + Len(s) <= Len(Scenario)
                     /\ \A i \in 1..Len(s) : Scenario[pos + i] = s[i]

\* the call ends: Ok, Err(io error) through `?`, or a panic of an assertion
Stop(res, err) == pc' = "done" /\ result' = res /\ error' = err

Goto(p) == pc' = p /\ UNCHANGED <<result, error>>

ParseRest == UNCHANGED <<flexVars, buildVars>>

ParseInit ==
    /\ pc = "signature"
    /\ pos = 0 /\ last = <<>> /\ field = "none" /\ onScenario = TRUE
    /\ unit_num = 0 /\ unit = EmptyUnit
    /\ smp_num_44k = 0 /\ units = <<>>
    /\ result = "none" /\ error = "none"
    /\ FlexIdle /\ BuildIdle

\* pulse.rs 33-35
ReadSignature ==
    /\ pc = "signature"
    /\ \E s \in SignatureInputs :
        /\ Fits(s)
        /\ Consume(s)
        /\ IF Len(s) < 8 THEN Stop("Err", "UnexpectedEof")
           ELSE IF s # CODE THEN Stop("Panic", "assert_eq!(code, Self::CODE)")
           ELSE Goto("version")
    /\ UNCHANGED <<unit_num, unit, noiseVars>>
    /\ ParseRest

\* pulse.rs 37-38
ReadVersion ==
    /\ pc = "version"
    /\ \E s \in VersionInputs :
        /\ Fits(s)
        /\ Consume(s)
        /\ IF Len(s) < 4 THEN Stop("Err", "UnexpectedEof")
           ELSE IF ~U32Le(read_u32_le(s), VERSION)
           THEN Stop("Panic", "assert!(version <= Self::VERSION)")
           ELSE Goto("smp_num")
    /\ UNCHANGED <<unit_num, unit, noiseVars>>
    /\ ParseRest

\* pulse.rs 40
ReadSmpNum ==
    /\ pc = "smp_num"
    /\ \E s \in SmpNumInputs :
        LET f == read_u32_flex(s)
        IN  /\ Fits(s) /\ f.len = Len(s)
            /\ Consume(s)
            /\ IF ~f.ok
               THEN Stop("Err", f.err) /\ UNCHANGED smp_num_44k
               ELSE Goto("unit_num") /\ smp_num_44k' = U32Min(f.val, LIMIT_SMP_NUM)
    /\ UNCHANGED <<unit_num, unit, units>>
    /\ ParseRest

\* pulse.rs 42-45, and 50 when there is no unit to read
ReadUnitNum ==
    /\ pc = "unit_num"
    /\ \E s \in UnitNumInputs :
        /\ Fits(s)
        /\ Consume(s)
        /\ IF Len(s) < 1
           THEN Stop("Err", "UnexpectedEof") /\ UNCHANGED unit_num
           ELSE /\ unit_num' = s[1]
                /\ IF s[1] > MAX_UNIT_NUM
                   THEN Stop("Panic", "assert!(unit_num <= Self::MAX_UNIT_NUM)")
                   ELSE IF s[1] = 0 THEN Stop("Ok", "none")
                   ELSE Goto("unit_flags")
    /\ UNCHANGED <<unit, noiseVars>>
    /\ ParseRest

\* the unit u has read section k: go on to its next section, or return it to
\* Noise::new, which pushes it and reads the next unit or returns the Noise
\* (pulse.rs 129-136, 46-50)
Advance(u, k) ==
    LET n == NextSection(u.flags, k)
    IN  IF n # "unit_end"
        THEN Goto(n) /\ unit' = u /\ UNCHANGED units
        ELSE /\ units' = Append(units,
                    [enable |-> TRUE, enves |-> u.enves, pan |-> u.pan,
                     main |-> u.main, freq |-> u.freq, volu |-> u.volu])
             /\ unit' = EmptyUnit
             /\ IF Len(units) + 1 < unit_num THEN Goto("unit_flags") ELSE Stop("Ok", "none")

\* pulse.rs 83-86; the sections not read keep the values of the else arms
ReadUnitFlags ==
    /\ pc = "unit_flags"
    /\ \E s \in FlagsInputs :
        LET f == read_u32_flex(s)
        IN  /\ Fits(s) /\ f.len = Len(s)
            /\ Consume(s)
            /\ IF ~f.ok
               THEN Stop("Err", f.err) /\ UNCHANGED <<unit, units>>
               ELSE IF U32And(f.val, FLAG_UNCOVERED) # [hi |-> 0, lo |-> 0]
               THEN /\ Stop("Panic", "assert_eq!(flags & Self::FLAG_UNCOVERED, 0)")
                    /\ UNCHANGED <<unit, units>>
               ELSE Advance([flags |-> f.val.lo, enve_num |-> 0, enves |-> <<>>,
                             pan |-> 0, main |-> None, freq |-> None, volu |-> None], 0)
    /\ UNCHANGED <<unit_num, smp_num_44k>>
    /\ ParseRest

\* pulse.rs 90-93
ReadEnveNum ==
    /\ pc = "envelope"
    /\ \E s \in EnveNumInputs :
        LET f == read_u32_flex(s)
        IN  /\ Fits(s) /\ f.len = Len(s)
            /\ Consume(s)
            /\ IF ~f.ok
               THEN Stop("Err", f.err) /\ UNCHANGED <<unit, units>>
               ELSE IF ~U32Le(f.val, MAX_ENVELOPE_NUM)
               THEN /\ Stop("Panic", "assert!(enve_num <= Self::MAX_ENVELOPE_NUM)")
                    /\ UNCHANGED <<unit, units>>
               ELSE IF f.val.lo = 0
               THEN Advance(unit, 1)
               ELSE /\ Goto("enve_point")
                    /\ unit' = [unit EXCEPT !.enve_num = f.val.lo]
                    /\ UNCHANGED units
    /\ UNCHANGED <<unit_num, smp_num_44k>>
    /\ ParseRest

\* pulse.rs 94-99: one turn of the loop over the envelope points
ReadEnvePoint ==
    /\ pc = "enve_point"
    /\ \E s \in EnvePointInputs :
        LET x == read_i32_flex(s)
            y == read_i32_flex(SubSeq(s, x.len + 1, Len(s)))
            n == IF x.ok THEN x.len + y.len ELSE x.len
            u == [unit EXCEPT !.enves = Append(@,
                     [x |-> Min(Max(x.val, 0), LIMIT_ENVE_X),
                      y |-> Min(Max(y.val, 0), LIMIT_ENVE_Y)])]
        IN  /\ Fits(s) /\ n = Len(s)
            /\ Consume(s)
            /\ IF ~x.ok THEN Stop("Err", x.err) /\ UNCHANGED <<unit, units>>
               ELSE IF ~y.ok THEN Stop("Err", y.err) /\ UNCHANGED <<unit, units>>
               ELSE IF Len(u.enves) < u.enve_num
               THEN Goto("enve_point") /\ unit' = u /\ UNCHANGED units
               ELSE Advance(u, 1)
    /\ UNCHANGED <<unit_num, smp_num_44k>>
    /\ ParseRest

\* pulse.rs 106-107
ReadPan ==
    /\ pc = "pan"
    /\ \E s \in PanInputs :
        /\ Fits(s)
        /\ Consume(s)
        /\ IF Len(s) < 1
           THEN Stop("Err", "UnexpectedEof") /\ UNCHANGED <<unit, units>>
           ELSE Advance([unit EXCEPT !.pan = read_i8(s[1])], 2)
    /\ UNCHANGED <<unit_num, smp_num_44k>>
    /\ ParseRest

\* pulse.rs 113-127: the oscillator of section k (3 main, 4 freq, 5 volu)
ReadOscillator(name, k) ==
    /\ pc = name
    /\ \E s \in OscillatorInputs :
        LET o == NoiseOscillator_new(s)
        IN  /\ Fits(s) /\ o.len = Len(s)
            /\ Consume(s)
            /\ IF o.out # "Ok"
               THEN Stop(o.out, o.err) /\ UNCHANGED <<unit, units>>
               ELSE Advance([unit EXCEPT ![name] = o.osc], k)
    /\ UNCHANGED <<unit_num, smp_num_44k>>
    /\ ParseRest

ReadMain == ReadOscillator("main", 3)
ReadFreq == ReadOscillator("freq", 4)
ReadVolu == ReadOscillator("volu", 5)

Next ==
    \/ ReadSignature \/ ReadVersion \/ ReadSmpNum \/ ReadUnitNum
    \/ ReadUnitFlags \/ ReadEnveNum \/ ReadEnvePoint \/ ReadPan
    \/ ReadMain \/ ReadFreq \/ ReadVolu

Spec == ParseInit /\ [][Next]_vars

(***************************************************************************)
(* Properties of the parser                                                *)
(***************************************************************************)
\* what holds of every Noise that Noise::new returns, and of the unit being
\* read: at most 4 units, as many as the unit count byte says, at most 3
\* envelope points each, with clamped coordinates
EnvesInRange(es) ==
    /\ Len(es) <= MAX_ENVELOPE_NUM
    /\ \A i \in 1..Len(es) : es[i].x \in 0..LIMIT_ENVE_X /\ es[i].y \in 0..LIMIT_ENVE_Y

ParsedShape ==
    /\ Len(units) <= MAX_UNIT_NUM
    /\ \A i \in 1..Len(units) : EnvesInRange(units[i].enves)
    /\ result = "Ok" => Len(units) = unit_num /\ smp_num_44k <= LIMIT_SMP_NUM
    /\ pc \in {"enve_point", "pan", "main", "freq", "volu"} => EnvesInRange(unit.enves)

\* the boundary document parses: version exactly 20120418 is accepted, the
\* duration is 44100 and the unit list is empty
ScenarioParses ==
    (pc = "done" /\ onScenario /\ pos = Len(Scenario)) =>
        result = "Ok" /\ smp_num_44k = 44100 /\ units = <<>>

\* C7: a signature other than "PTNOISE-" makes Noise::new return the error
\* BadSignature, a version above 20120418 the error UnsupportedVersion; a
\* version up to 20120418 is accepted, and the boundary document parses to
\* duration 44100 with no units.
C7_HeaderErrors ==
    /\ (pc = "done" /\ field = "signature" /\ Len(last) = 8 /\ last # CODE) =>
            result = "Err" /\ error = "BadSignature"
    /\ (pc = "done" /\ field = "version" /\ Len(last) = 4
            /\ ~U32Le(read_u32_le(last), 20120418)) =>
            result = "Err" /\ error = "UnsupportedVersion"
    /\ (field = "version" /\ Len(last) = 4 /\ U32Le(read_u32_le(last), 20120418)) =>
            pc = "smp_num"
    /\ ScenarioParses

\* C8: a unit count above 4 makes Noise::new fail with TooManyUnits, the
\* count byte being the last byte consumed; a Noise that is returned has
\* 0 to 4 units.
C8_TooManyUnits ==
    /\ (pc = "done" /\ field = "unit_num" /\ Len(last) = 1 /\ last[1] > 4) =>
            /\ result = "Err" /\ error = "TooManyUnits"
            /\ units = <<>> /\ unit = EmptyUnit
    /\ result = "Ok" => Len(units) \in 0..4 /\ Len(units) = unit_num

\* the flags word just read has a bit outside 0x7c
FlagsOutsideMask ==
    /\ field = "unit_flags" /\ read_u32_flex(last).ok
    /\ U32And(read_u32_flex(last).val, [hi |-> 65535, lo |-> 65535 - 124])
            # [hi |-> 0, lo |-> 0]

\* while a unit is read: a section whose flag is clear has its empty value,
\* and so has every section that comes after the one being read
SectionsInOrder ==
    pc \in {"envelope", "enve_point", "pan", "main", "freq", "volu"} =>
        /\ BitAnd(unit.flags, 4) = 0 => unit.enves = <<>>
        /\ (BitAnd(unit.flags, 8) = 0 \/ pc \in {"envelope", "enve_point", "pan"})
                => unit.pan = 0
        /\ (BitAnd(unit.flags, 16) = 0 \/ pc \in {"envelope", "enve_point", "pan", "main"})
                => unit.main = None
        /\ (BitAnd(unit.flags, 32) = 0 \/ pc # "volu") => unit.freq = None
        /\ unit.volu = None
        /\ pc \in {"envelope", "enve_point"} => BitAnd(unit.flags, 4) # 0
        /\ pc = "pan" => BitAnd(unit.flags, 8) # 0
        /\ pc = "main" => BitAnd(unit.flags, 16) # 0
        /\ pc = "freq" => BitAnd(unit.flags, 32) # 0
        /\ pc = "volu" => BitAnd(unit.flags, 64) # 0

\* C9: NoiseUnit::new fails with UnknownFeatureFlag exactly when the flags
\* word has a bit outside 0x7c; otherwise the sections are read in the order
\* envelope, pan, main, freq, volu, and a section whose flag is clear is not
\* read and keeps its empty value.
C9_UnknownFeatureFlag ==
    /\ (pc = "done" /\ FlagsOutsideMask) <=> (result = "Err" /\ error = "UnknownFeatureFlag")
    /\ SectionsInOrder

\* the envelope point count just read is above 3
EnveNumAboveMax ==
    /\ field = "envelope" /\ read_u32_flex(last).ok
    /\ ~U32Le(read_u32_flex(last).val, 3)

\* C10: an envelope point count above 3 fails the parse with
\* TooManyEnvelopePoints; otherwise that many points are read and every
\* stored point has 0 <= x <= 10000 and 0 <= y <= 100, at most 3 per unit.
C10_TooManyEnvelopePoints ==
    /\ (pc = "done" /\ EnveNumAboveMax) =>
            result = "Err" /\ error = "TooManyEnvelopePoints"
    /\ \A i \in 1..Len(units) :
            /\ Len(units[i].enves) <= 3
            /\ \A j \in 1..Len(units[i].enves) :
                  /\ units[i].enves[j].x \in 0..10000
                  /\ units[i].enves[j].y \in 0..100

\* the sections of a unit
UnitSections == {"envelope", "enve_point", "pan", "main", "freq", "volu"}

\* C11: every unit of a parsed document has pan within -100..100 (a pan byte
\* outside the range is clamped at parse time), and a unit whose pan flag is
\* clear has pan 0.
C11_PanClamped ==
    /\ \A i \in 1..Len(units) : units[i].pan \in -100..100
    /\ pc \in {"main", "freq", "volu"} => unit.pan \in -100..100
    /\ (pc \in UnitSections /\ BitAnd(unit.flags, 8) = 0) => unit.pan = 0

\* the oscillator the last read stored, in the unit being read or, when that
\* read completed the unit, in the unit pushed last
LastOscillator ==
    IF pc \in UnitSections THEN unit[field] ELSE units[Len(units)][field]

\* the last read was for an oscillator and went through
OscillatorRead ==
    /\ field \in {"main", "freq", "volu"}
    /\ pc # "done" \/ result = "Ok"

OscInRange(o) ==
    o.some => /\ o.wave \in 0..16
              /\ o.freq \in 0..441000       \* tenths of [0, 44100]
              /\ o.volu \in 0..2000         \* tenths of [0, 200]
              /\ o.offset \in 0..1000       \* tenths of [0, 100]

\* every oscillator stored so far has its fields inside the documented ranges
OscillatorsInRange ==
    /\ \A i \in 1..Len(units) :
          OscInRange(units[i].main) /\ OscInRange(units[i].freq) /\ OscInRange(units[i].volu)
    /\ pc \in UnitSections =>
          OscInRange(unit.main) /\ OscInRange(unit.freq) /\ OscInRange(unit.volu)

\* the five fields are taken in the order wave, rev, freq, volu, offset:
\* the bytes 01 00 flex(1000.0) flex(1000.0) 00 are a sine, not reversed,
\* 100.0 Hz, 100.0 %, offset 0; the bytes 10 02 flex(1e9) flex(-10.0)
\* flex(NaN) are a saw8, reversed, 44100 Hz (clamped), 0 %, offset 0
OscillatorFieldOrder ==
    OscillatorRead =>
        /\ last = <<1, 0, 128, 128, 232, 163, 4, 128, 128, 232, 163, 4, 0>> =>
              LastOscillator = [some |-> TRUE, wave |-> 1, rev |-> FALSE,
                                freq |-> 1000, volu |-> 1000, offset |-> 0]
        /\ last = <<16, 2, 168, 214, 185, 243, 4, 128, 128, 128, 137, 12,
                    128, 128, 128, 254, 7>> =>
              LastOscillator = [some |-> TRUE, wave |-> 16, rev |-> TRUE,
                                freq |-> 441000, volu |-> 0, offset |-> 0]

\* the waveform index just read is none of the 17 kinds
WaveUnknown ==
    /\ field \in {"main", "freq", "volu"}
    /\ read_i32_flex(last).ok
    /\ read_i32_flex(last).val \notin 0..16

\* C12: NoiseOscillator::new reads wave, rev, freq, volu, offset in this
\* order; a waveform index outside 0..16 (a negative one included) fails the
\* parse with UnknownWaveform; every oscillator of a parsed document has
\* frequency in [0, 44100], volume in [0, 200] and offset in [0, 100].
C12_UnknownWaveform ==
    /\ (pc = "done" /\ WaveUnknown) => result = "Err" /\ error = "UnknownWaveform"
    /\ OscillatorFieldOrder
    /\ OscillatorsInRange

\* the bytes s end inside one of the k flex fields they start with
RECURSIVE TruncatedFields(_, _)
TruncatedFields(s, k) ==
    IF k = 0 THEN FALSE
    ELSE IF Terminated(s)
    THEN TruncatedFields(SubSeq(s, FirstClear(s) + 1, Len(s)), k - 1)
    ELSE Len(s) < 5

\* the last read ran into the end of the input: the bytes it consumed are
\* fewer than its field takes.  An oscillator whose waveform index is
\* unknown is left after that one field.
Truncated ==
    CASE field = "signature" -> Len(last) < 8
      [] field = "version" -> Len(last) < 4
      [] field \in {"unit_num", "pan"} -> Len(last) < 1
      [] field \in {"smp_num", "unit_flags", "envelope"} -> TruncatedFields(last, 1)
      [] field = "enve_point" -> TruncatedFields(last, 2)
      [] field \in {"main", "freq", "volu"} ->
            TruncatedFields(last, IF WaveUnknown THEN 1 ELSE 5)
      [] OTHER -> FALSE

\* C13: when the input ends inside a field (the header, a flex field, the
\* pan byte, an envelope point's y), Noise::new ends there and returns the
\* io error of the failed read (the truncated-input error): no panic, and
\* no Noise is returned.
C13_TruncatedInput ==
    Truncated => pc = "done" /\ result = "Err" /\ error = "UnexpectedEof"

\* the input ends before the y of the only envelope point of a unit
C13_Witness ==
    /\ pc = "done" /\ result = "Err"
    /\ field = "enve_point" /\ last = <<244, 3>>
    /\ unit.enve_num = 1 /\ unit.enves = <<>>

(***************************************************************************)
(* pulse/noise_builder.rs: NoiseBuilder::build                             *)
(***************************************************************************)
BASIC_SPS == 44100

\* (f64::from(smp_num_44k) / (f64::from(BASIC_SPS) / f64::from(sps))) as u32.
\* For every smp_num_44k up to LIMIT_SMP_NUM and each of the four sample
\* rates the f64 quotient truncates to floor(n * sps / 44100); the division
\* is split so that no product leaves 32 bits.
SampleCount(n, rate) ==
    (n \div BASIC_SPS) * rate + ((n % BASIC_SPS) * rate) \div BASIC_SPS

\* f64 as i32 for a value inside the i32 range: the fraction is dropped
TruncDiv(a, b) == IF a >= 0 THEN a \div b ELSE -((-a) \div b)

\* noise_table.rs: the length of a waveform table and of the random table
SMP_NUM == 441
SMP_NUM_RAND == 44100

\* the f64 phases (offset, increment) are kept as whole multiples of
\* 1/PhaseUnit of a table entry: the increments of the four sample rates
\* and their halves are whole numbers of that unit
PhaseUnit == 320000

\* NoiseBuilderOscillator::empty
NoiseBuilderOscillator_empty(kind) ==
    [kind |-> kind, wave |-> "None", index |-> 0, rev |-> FALSE,
     increment |-> 0, volu |-> 0, offset |-> 0]

\* NoiseBuilderOscillator::new.  wave: None, Raw (a 441-entry table) or
\* Random (NoiseWave::Random = 4, Random2 = 8) with the index
\* (SMP_NUM_RAND * offset / 100) as usize of init_random; increment =
\* (44100 / sps) * (freq / 100); offset = SMP_NUM * offset / 100 for the
\* random waves, else 0.  osc.freq, osc.volu, osc.offset are in tenths.
NoiseBuilderOscillator_new(osc, kind, rate) ==
    LET random == osc.wave \in {4, 8}
    IN  [kind |-> kind,
         wave |-> IF osc.wave = 0 THEN "None" ELSE IF random THEN "Random" ELSE "Raw",
         index |-> IF random THEN ((SMP_NUM_RAND \div 100) * osc.offset) \div 10 ELSE 0,
         rev |-> osc.rev,
         increment |-> osc.freq * (((PhaseUnit \div 1000) * BASIC_SPS) \div rate),
         volu |-> osc.volu,
         offset |-> IF random THEN SMP_NUM * osc.offset * (PhaseUnit \div 1000) ELSE 0]

\* the match on unit.pan with the arm of pan 0 lost: a centred unit falls
\* into the last arm and is played on one channel only
NoiseBuilderUnit_pan_no_centre(p) ==
    IF p < 0 THEN <<100, 100 + p>>
    ELSE <<p, 100>>

\* NoiseBuilderUnit::new, the match on unit.pan: the gain pair, in hundredths
NoiseBuilderUnit_pan(p) ==
    IF p = 0 THEN <<100, 100>>
    ELSE IF p < 0 THEN <<100, 100 + p>>
    ELSE <<100 + p, 100>>

\* NoiseBuilderUnit::new.  mag and the envelope magnitudes are in hundredths;
\* work and factor are what the last get_sample computed (none yet)
NoiseBuilderUnit_new(u, rate) ==
    [enable |-> u.enable,
     pan |-> NoiseBuilderUnit_pan(u.pan),
     enves |-> [k \in 1..Len(u.enves) |->
                   [smp |-> (rate * u.enves[k].x) \div 1000, mag |-> u.enves[k].y]],
     enve_index |-> 0,
     enve_mag_start |-> 0,
     enve_mag_margin |-> 0,
     enve_count |-> 0,
     main |-> IF u.main.some THEN NoiseBuilderOscillator_new(u.main, "Main", rate)
              ELSE NoiseBuilderOscillator_empty("Main"),
     freq |-> IF u.freq.some THEN NoiseBuilderOscillator_new(u.freq, "Freq", rate)
              ELSE NoiseBuilderOscillator_empty("Freq"),
     volu |-> IF u.volu.some THEN NoiseBuilderOscillator_new(u.volu, "Volu", rate)
              ELSE NoiseBuilderOscillator_empty("Volu"),
     work |-> [nan |-> FALSE, val |-> 0],
     factor |-> [used |-> "none"]]

\* init_random reads NOISE_TABLE_RANDOM[index]: an index past the table is a
\* panic of the slice index
RandomIndexInTable(o) == o.wave = "Random" => o.index < SMP_NUM_RAND

\* NoiseBuilderOscillator::get_sample reads its 441-entry table at
\* offset as i32: an index past the table is a panic of the slice index
TableIndex(o) == o.offset \div PhaseUnit

TableIndexInTable(o) == o.wave = "Raw" => TableIndex(o) < SMP_NUM

\* NoiseBuilderOscillator::increment
NoiseBuilderOscillator_increment(o, increment) ==
    LET sum == o.offset + increment
        offset == IF sum > SMP_NUM * PhaseUnit THEN sum - SMP_NUM * PhaseUnit ELSE sum
    IN  [o EXCEPT !.offset = offset,
                  !.index = IF o.wave = "Random" /\ @ >= SMP_NUM_RAND THEN 0 ELSE @]

\* the envelope factor get_sample multiplies by (lines 132-138): while a
\* segment runs, enve_mag_start + enve_mag_margin * enve_count / smp, that
\* is num / den with den = 100 * smp, and NaN (0.0 / 0.0 added to the start)
\* when smp is 0, where enve_count is 0 too; after the last segment,
\* enve_mag_start
EnvelopeFactor(b) ==
    IF b.enve_index < Len(b.enves)
    THEN LET smp == b.enves[b.enve_index + 1].smp
         IN  [used |-> "segment", index |-> b.enve_index, count |-> b.enve_count,
              smp |-> smp, nan |-> smp = 0,
              num |-> b.enve_mag_start * smp + b.enve_mag_margin * b.enve_count,
              den |-> 100 * smp]
    ELSE [used |-> "hold", index |-> b.enve_index, count |-> b.enve_count,
          smp |-> 1, nan |-> FALSE, num |-> b.enve_mag_start, den |-> 100]

\* lines 155-163: the while loop that passes over the segments of length 0
\* that follow the segment that ended
RECURSIVE EnvelopeSkip(_, _, _, _)
EnvelopeSkip(enves, index, start, margin) ==
    IF index < Len(enves)
    THEN LET enve == enves[index + 1]
         IN  IF enve.smp # 0
             THEN [index |-> index, start |-> start, margin |-> enve.mag - start]
             ELSE EnvelopeSkip(enves, index + 1, enve.mag, enve.mag - start)
    ELSE [index |-> index, start |-> start, margin |-> margin]

\* lines 147-165: the envelope counter after one sample
EnvelopeAdvance(b) ==
    IF b.enve_index < Len(b.enves)
    THEN LET current == b.enves[b.enve_index + 1]
         IN  IF b.enve_count + 1 >= current.smp
             THEN LET n == EnvelopeSkip(b.enves, b.enve_index + 1, current.mag, 0)
                  IN  [b EXCEPT !.enve_count = 0, !.enve_mag_start = n.start,
                                !.enve_mag_margin = n.margin, !.enve_index = n.index]
             ELSE [b EXCEPT !.enve_count = @ + 1]
    ELSE b

\* NoiseBuilderUnit::get_sample.  raw is main.get_sample() times the volume
\* factor, a product of table values that is 0 when the main oscillator has
\* no waveform; mult is Frequency::get(freq) in halves.  The sample is kept
\* to whole units: the fraction of raw * factor is dropped.
NoiseBuilderUnit_get_sample(b, raw, mult) ==
    IF ~b.enable THEN [panic |-> FALSE, unit |-> [b EXCEPT !.work = [nan |-> FALSE, val |-> 0]]]
    ELSE IF ~(TableIndexInTable(b.main) /\ TableIndexInTable(b.volu) /\ TableIndexInTable(b.freq))
    THEN [panic |-> TRUE, unit |-> b]
    ELSE LET f == EnvelopeFactor(b)
             work == IF f.nan THEN [nan |-> TRUE, val |-> 0]
                     ELSE [nan |-> FALSE, val |-> TruncDiv(raw * f.num, f.den)]
             o == [b EXCEPT
                     !.main = NoiseBuilderOscillator_increment(@, (b.main.increment * mult) \div 2),
                     !.freq = NoiseBuilderOscillator_increment(@, b.freq.increment),
                     !.volu = NoiseBuilderOscillator_increment(@, b.volu.increment),
                     !.work = work,
                     !.factor = f]
         IN  [panic |-> FALSE, unit |-> EnvelopeAdvance(o)]

\* impl Sample for u8: from_i16
u8_from_i16(bits) == BitXor((bits \div 256) % 256, 128)

\* write_i16::<LittleEndian>
write_i16_le(v) == << v % 256, (v \div 256) % 256 >>

\* the values main.get_sample() times the volume factor can take for the
\* unit b in one call: 0 when its main oscillator is absent, has waveform
\* None or volume 0, else a table value scaled by the volumes, which can
\* leave the 16-bit range
SampleValues == {-40000, -300, 4660, 40000}

UnitSamples(b) ==
    IF b.main.wave = "None" \/ b.main.volu = 0 THEN {0} ELSE SampleValues

\* the values of Frequency::get, in halves: 0.5, 1.0, 2.0
FrequencyValues == {1, 2, 4}

\* Frequency::get(freq) for the unit b in one call: the rate 1.0 of key 0
\* when the frequency oscillator has no waveform or volume 0, else a table
\* value
UnitFrequencies(b) ==
    IF b.freq.wave = "None" \/ b.freq.volu = 0 THEN {2} ELSE FrequencyValues

\* f64 as i32 of a NaN: 0 as the cast is defined since Rust 1.45, i32::MIN
\* as x86 converts it in a build where the cast is undefined
NanAsI32 == {0, -2147483647 - 1}

\* what `as i32` can make of the sum of the samples of the units bs
SumAsI32(bs) == IF \E u \in 1..Len(bs) : bs[u].work.nan THEN NanAsI32 ELSE {0}

\* noise_builder.rs 40-42: the fold over the samples of the units bs
RECURSIVE MixSum(_, _, _)
MixSum(bs, i, n) ==
    IF n = 0 THEN 0 ELSE bs[n].work.val * bs[n].pan[i] + MixSum(bs, i, n - 1)

\* noise_builder.rs 40-44: channel i (from 1) of one frame.  A NaN sample
\* makes the sum NaN, which `as i32` turns into c
MixChannel(bs, i, c) ==
    LET sum == IF \E u \in 1..Len(bs) : bs[u].work.nan THEN c
               ELSE TruncDiv(MixSum(bs, i, Len(bs)), 100)
    IN  Min(Max(sum, -32768), 32767)

\* noise_builder.rs 45-49: the bytes written for one clamped value
WriteSample(rate, v) == IF rate = 8 THEN <<u8_from_i16(v)>> ELSE write_i16_le(v)

RECURSIVE Concat(_, _)
Concat(f, n) == IF n = 0 THEN <<>> ELSE Concat(f, n - 1) \o f[n]

(***************************************************************************)
(* SpecBuild: NoiseBuilder::build on a Noise that Noise::new can return    *)
(***************************************************************************)
MaxDuration == 4

\* an envelope of one point reached at once: magnitude y from the second
\* sample on
Sine ==
    [some |-> TRUE, wave |-> 1, rev |-> FALSE, freq |-> 1000, volu |-> 1000, offset |-> 0]

SineUnit(p) ==
    [enable |-> TRUE, enves |-> << [x |-> 0, y |-> 100] >>, pan |-> p,
     main |-> Sine, freq |-> None, volu |-> None]

EmptyNoiseUnit ==
    [enable |-> TRUE, enves |-> <<>>, pan |-> 0, main |-> None, freq |-> None, volu |-> None]

\* a sine under the envelope es
EnvelopeUnit(es) == [SineUnit(0) EXCEPT !.enves = es]

\* a sine with a volume oscillator of f tenths of a Hz
VolumeUnit(f) == [SineUnit(0) EXCEPT !.volu = [Sine EXCEPT !.freq = f]]

\* a sine with a frequency oscillator of 10.0 Hz
FrequencyUnit == [SineUnit(0) EXCEPT !.freq = [Sine EXCEPT !.freq = 100]]

\* a random wave (NoiseWave::Random) with the phase offset o, in tenths of a
\* percent
RandomUnit(o) == [SineUnit(0) EXCEPT !.main = [Sine EXCEPT !.wave = 4, !.offset = o]]

BuildUnits ==
    { <<>>, <<EmptyNoiseUnit>>, <<SineUnit(0)>>, <<SineUnit(50)>>,
      <<SineUnit(-50), SineUnit(127)>>,
      <<EnvelopeUnit(<< [x |-> 0, y |-> 0] >>), SineUnit(0)>>,
      <<EnvelopeUnit(<< [x |-> 1, y |-> 100], [x |-> 0, y |-> 50] >>)>>,
      <<EnvelopeUnit(<< [x |-> 0, y |-> 100], [x |-> 0, y |-> 50], [x |-> 1, y |-> 30] >>)>>,
      <<VolumeUnit(1000)>>, <<VolumeUnit(441000)>>, <<FrequencyUnit>>,
      <<RandomUnit(500)>>, <<RandomUnit(1000)>> }

BuildInit ==
    /\ pc = "build"
    /\ smp_num_44k \in 0..MaxDuration
    /\ units \in BuildUnits
    /\ ch \in {0, 1, 2, 3}
    /\ sps \in {8, 11025, 22050, 44100, 48000}
    /\ bps \in {8, 16, 32}
    /\ bunits = <<>> /\ smp_num = 0 /\ smp_len = 0
    /\ frame = <<>> /\ mixed = <<>> /\ iterations = 0
    /\ result = "none" /\ error = "none"
    /\ FlexIdle /\ ParseIdle

BuildRest == UNCHANGED <<flexVars, parseVars, noiseVars, ch, sps, bps>>

\* noise_builder.rs 20-32
BuildStart ==
    /\ pc = "build"
    /\ IF ~(ch = 1 \/ ch = 2)
       THEN Stop("Panic", "assert!(ch == 1 || ch == 2)") /\ UNCHANGED <<bunits, smp_num>>
       ELSE IF ~(sps = 11025 \/ sps = 22050 \/ sps = 44100 \/ sps = 48000)
       THEN /\ Stop("Panic", "assert!(sps == 11025 || sps == 22050 || sps == 44100 || sps == 48000)")
            /\ UNCHANGED <<bunits, smp_num>>
       ELSE IF ~(bps = 8 \/ bps = 16)
       THEN Stop("Panic", "assert!(bps == 8 || bps == 16)") /\ UNCHANGED <<bunits, smp_num>>
       ELSE LET bs == [i \in 1..Len(units) |-> NoiseBuilderUnit_new(units[i], sps)]
            IN  IF \E i \in 1..Len(bs) :
                      ~(RandomIndexInTable(bs[i].main) /\ RandomIndexInTable(bs[i].freq)
                            /\ RandomIndexInTable(bs[i].volu))
                THEN /\ Stop("Panic", "index out of bounds")
                     /\ UNCHANGED <<bunits, smp_num>>
                ELSE /\ Goto("loop")
                     /\ smp_num' = SampleCount(smp_num_44k, sps) * (bps \div 8) * ch
                     /\ bunits' = bs
    /\ UNCHANGED <<smp_len, frame, mixed, iterations>>
    /\ BuildRest

\* noise_builder.rs 34-51: one turn of the while loop
BuildLoop ==
    /\ pc = "loop"
    /\ smp_len < smp_num
    /\ \E rs \in [1..Len(bunits) -> SampleValues \cup {0}],
          ms \in [1..Len(bunits) -> FrequencyValues] :
        LET gs == [u \in 1..Len(bunits) |->
                      NoiseBuilderUnit_get_sample(bunits[u], rs[u], ms[u])]
            bs == [u \in 1..Len(bunits) |-> gs[u].unit]
        IN  /\ \A u \in 1..Len(bunits) :
                  rs[u] \in UnitSamples(bunits[u]) /\ ms[u] \in UnitFrequencies(bunits[u])
            /\ IF \E u \in 1..Len(bunits) : gs[u].panic
               THEN /\ Stop("Panic", "index out of bounds")
                    /\ UNCHANGED <<bunits, smp_len, frame, mixed, iterations>>
               ELSE /\ bunits' = bs
                    /\ \E c \in SumAsI32(bs) :
                          mixed' = [i \in 1..ch |-> MixChannel(bs, i, c)]
                    /\ frame' = Concat([i \in 1..ch |-> WriteSample(sps, mixed'[i])], ch)
                    /\ smp_len' = smp_len + Len(frame')
                    /\ iterations' = iterations + 1
                    /\ Goto("loop")
    /\ UNCHANGED smp_num
    /\ BuildRest

\* noise_builder.rs 34, 53: the loop ends and the Pcm is returned
BuildReturn ==
    /\ pc = "loop"
    /\ ~(smp_len < smp_num)
    /\ Stop("Ok", "none")
    /\ UNCHANGED <<bunits, smp_num, smp_len, frame, mixed, iterations>>
    /\ BuildRest

BuildNext == BuildStart \/ BuildLoop \/ BuildReturn

SpecBuild == BuildInit /\ [][BuildNext]_vars

(***************************************************************************)
(* Properties of the builder                                               *)
(***************************************************************************)
ValidTarget == ch \in {1, 2} /\ sps \in {11025, 22050, 44100, 48000} /\ bps \in {8, 16}

\* reference_duration * sample_rate / 44100, rounded toward zero
TargetSampleCount == (smp_num_44k * sps) \div 44100

\* C1: build returns a buffer of target_sample_count * channels *
\* (bits_per_sample / 8) bytes, and a Noise without units gives zero bytes
\* only.
C1_BufferLength ==
    (pc = "done" /\ result = "Ok") =>
        /\ smp_len = TargetSampleCount * ch * (bps \div 8)
        /\ units = <<>> => \A i \in 1..Len(frame) : frame[i] = 0

\* C2: the loop runs exactly target_sample_count times, never more, for
\* every channel count, sample rate and bit depth.
C2_LoopCount ==
    /\ pc \in {"loop", "done"} /\ ValidTarget => iterations <= TargetSampleCount
    /\ (pc = "done" /\ result = "Ok") => iterations = TargetSampleCount

\* C3: every mixed value is clamped to [-32768, 32767] and written as two
\* little-endian bytes when bits_per_sample is 16, as the single byte
\* ((v >> 8) as i8) xor 0x80 when it is 8.
C3_Quantization ==
    (pc \in {"loop", "done"} /\ iterations > 0) =>
        /\ \A i \in 1..ch : mixed[i] \in -32768..32767
        /\ frame = Concat([i \in 1..ch |->
                      IF bps = 16
                      THEN << mixed[i] % 256, (mixed[i] \div 256) % 256 >>
                      ELSE << BitXor((mixed[i] \div 256) % 256, 128) >>], ch)

\* at 16 bits per sample the length, the loop count and the bytes written are
\* the ones C1, C2 and C3 state, as long as no table is read out of bounds
SixteenBitOutput ==
    (pc \in {"loop", "done"} /\ ValidTarget /\ bps = 16 /\ result # "Panic") =>
        /\ iterations <= TargetSampleCount
        /\ smp_len = iterations * ch * 2
        /\ pc = "done" => result = "Ok" /\ iterations = TargetSampleCount
        /\ iterations > 0 =>
              frame = Concat([i \in 1..ch |->
                          << mixed[i] % 256, (mixed[i] \div 256) % 256 >>], ch)

\* C4: a target outside the allowed sets makes the synthesis return the error
\* UnsupportedTarget and no buffer; an allowed target never fails with it.
C4_UnsupportedTarget ==
    /\ (pc = "done" /\ ~ValidTarget) =>
            result = "Err" /\ error = "UnsupportedTarget" /\ smp_len = 0
    /\ ValidTarget => error # "UnsupportedTarget"

(***************************************************************************)
(* Properties of the units of the builder                                  *)
(***************************************************************************)
\* build has made its units and has not failed
Building == pc \in {"loop", "done"} /\ Len(bunits) = Len(units)

ZeroEnvelope(u) == u.enves = << [x |-> 0, y |-> 0] >>

\* C15: a unit whose envelope is the single point (0, 0) contributes exactly
\* 0 to every output sample, from the first on, whatever its oscillators and
\* the units mixed with it: its sample is a well-defined 0, never the result
\* of a division by a segment length of 0.
C15_ZeroEnvelopeSilent ==
    Building =>
        \A u \in 1..Len(bunits) :
            ZeroEnvelope(units[u]) =>
                /\ bunits[u].work = [nan |-> FALSE, val |-> 0]
                /\ bunits[u].factor.used = "segment" => bunits[u].factor.smp # 0

\* the gain pair of the claim, in hundredths: the pair of +p is the pair of
\* -p with the channels swapped
PanMirrored(p) ==
    IF p = 0 THEN <<100, 100>>
    ELSE IF p < 0 THEN <<100, 100 + p>>
    ELSE <<100 - p, 100>>

\* C16: NoiseBuilderUnit::new resolves pan 0 to (1.0, 1.0), a negative pan p
\* to (1.0, (100 + p) / 100) and a positive pan to the mirror image; for
\* every pan in -100..100 both gains lie in [0, 1] and one of them is 1.0.
C16_PanGains ==
    Building =>
        \A u \in 1..Len(bunits) :
            units[u].pan \in -100..100 =>
                /\ bunits[u].pan = PanMirrored(units[u].pan)
                /\ bunits[u].pan[1] \in 0..100 /\ bunits[u].pan[2] \in 0..100
                /\ bunits[u].pan[1] = 100 \/ bunits[u].pan[2] = 100

\* once the envelope of a unit has left its first segment, the segment it
\* stands on has a length other than 0, and the factor it applies next
\* starts from the magnitude of the point before that segment
LaterSegmentsSkipped ==
    (Building /\ iterations > 0) =>
        \A u \in 1..Len(bunits) :
            LET b == bunits[u]
            IN  (0 < b.enve_index /\ b.enve_index < Len(b.enves)) =>
                    /\ b.enves[b.enve_index + 1].smp # 0
                    /\ b.enve_mag_start = b.enves[b.enve_index].mag
                    /\ b.enve_mag_margin = b.enves[b.enve_index + 1].mag - b.enve_mag_start

\* C17: in every state of a unit's envelope, from its initialization through
\* all get_sample calls, enve_index is at most the number of points and not
\* below the index of the last evaluation, and whenever the envelope is
\* evaluated with enve_index below the number of points the segment's length
\* in samples is not 0 (segments of length 0 are passed over, the first
\* included), so that the interpolation never divides by 0.
C17_EnvelopeIndex ==
    Building =>
        \A u \in 1..Len(bunits) :
            LET b == bunits[u]
            IN  /\ b.enve_index \in 0..Len(b.enves)
                /\ b.factor.used # "none" => b.factor.index <= b.enve_index
                /\ b.factor.used = "segment" => b.factor.smp # 0
                /\ (pc = "loop" /\ smp_len < smp_num /\ b.enve_index < Len(b.enves)) =>
                        b.enves[b.enve_index + 1].smp # 0

\* the oscillators of a unit of the builder
Oscillators(b) == {b.main, b.freq, b.volu}

\* C18: every index used to read a table is inside the table: the integer
\* phase of an oscillator read from a 441-entry table is in [0, 441) after
\* any number of advances, a phase that lands exactly on 441 included, and
\* the index into the 44100-entry random table is in [0, 44100) for every
\* phase offset in [0, 100], 100 included.
C18_TableIndexInRange ==
    /\ error # "index out of bounds"
    /\ (pc = "loop" /\ smp_len < smp_num) =>
            \A u \in 1..Len(bunits) : \A o \in Oscillators(bunits[u]) :
                /\ o.wave = "Raw" => o.offset \div PhaseUnit \in 0..440
                /\ o.wave = "Random" => o.index \in 0..44099

\* the magnitude, in hundredths, the segment k (from 0) of the unit b starts
\* from: 0 for the first, the magnitude of the point before for the others
SegmentBase(b, k) == IF k = 0 THEN 0 ELSE b.enves[k].mag

\* C19: the envelope factor get_sample applies is the piecewise-linear
\* envelope of the unit's points: in segment k of length L > 0 at counter c
\* it is m(k-1) + (m(k) - m(k-1)) * c / L with m(-1) = 0, so that the first
\* segment ramps from 0 to the first magnitude; after the last segment it
\* is the magnitude of the last point.
C19_EnvelopeFactor ==
    Building =>
        \A u \in 1..Len(bunits) :
            LET b == bunits[u]
                f == b.factor
            IN  /\ (f.used = "segment" /\ f.smp # 0) =>
                        /\ f.den = 100 * f.smp
                        /\ f.num = SegmentBase(b, f.index) * f.smp
                                + (b.enves[f.index + 1].mag - SegmentBase(b, f.index)) * f.count
                /\ (f.used = "hold" /\ Len(b.enves) > 0) =>
                        f.num * 100 = b.enves[Len(b.enves)].mag * f.den

====
